---- MODULE Spec2Model ----
(***************************************************************************)
(* Two classical ciphers over the Russian alphabet:                        *)
(*   - modAlphaCipher (src/2.1): additive polyalphabetic (Gronsfeld-style) *)
(*     cipher keyed by a word;                                             *)
(*   - Table (src/2.2): columnar route transposition keyed by a column     *)
(*     count.                                                              *)
(* A wide character is modelled by its code point (wchar_t value), a wide  *)
(* string by a sequence of code points.  The wide-character classification *)
(* functions of <cwctype> are modelled for the Unicode locale the drivers  *)
(* select with setlocale(LC_ALL, "").                                      *)
(***************************************************************************)
EXTENDS Integers, Sequences, FiniteSets, TLC

VARIABLES
    pc,             \* position of the driver: start, ready, encrypted, done, failed, crashed
    skey,           \* the key argument given to the constructor (string or int)
    engine,         \* "none" until a constructor returns, then "live"
    alphaNum,       \* modAlphaCipher::alphaNum, symbol -> index
    key,            \* modAlphaCipher::key, the numeric key
    cols,           \* Table::cols
    Text,           \* the driver's plain text
    cipherText,     \* the driver's cipher text (result of encrypt, or given)
    decryptedText,  \* the driver's decrypted text
    encRes,         \* outcome of the encrypt call: none, ok, cipher_error, crash
    decRes,         \* outcome of the decrypt call: none, ok, cipher_error, crash
    err,            \* what() of the cipher_error caught, "" if none
    ub,             \* the run executed undefined behaviour
    calls           \* per thread: the encrypt/decrypt call it makes on the shared engine

vars == <<pc, skey, engine, alphaNum, key, cols, Text, cipherText,
          decryptedText, encRes, decRes, err, ub, calls>>

----------------------------------------------------------------------------
(* Bounds of the model *)

MaxKeyLen == 2
MaxTextLen == 3
MaxColsTried == 4
MaxTableLen == 4

\* all strings over S of length at most n
BoundedSeq(S, n) == UNION {[1..m -> S] : m \in 0..n}

\* Key characters tried: Я (upper), ё (lower), Z (Latin letter), ',' '1' ' '
KeyChars == {1071, 1105, 90, 44, 49, 32}
\* Text characters tried: А Ё (upper), п (lower), Z (Latin letter), ','
TextChars == {1040, 1025, 1087, 90, 44}

KeyStrings == BoundedSeq(KeyChars, MaxKeyLen)
TextStrings == BoundedSeq(TextChars, MaxTextLen)

\* Column counts tried: -1, 0, the small ones, the largest accepted, the first rejected
TableKeys == (-1..MaxColsTried) \cup {100, 101}
\* Table text characters tried: А Ё (upper), я (lower), ' '
TableChars == {1040, 1025, 1103, 32}
TableStrings == BoundedSeq(TableChars, MaxTableLen)

\* values an out-of-bounds read of the key vector may yield
UBGarbage == {0, 1}

----------------------------------------------------------------------------
(* <cwctype> under a Unicode locale, for Basic Latin and the Cyrillic block *)

iswupper(c) == (c >= 65 /\ c <= 90) \/ (c >= 1024 /\ c <= 1071)

iswlower(c) == (c >= 97 /\ c <= 122) \/ (c >= 1072 /\ c <= 1119)

iswalpha(c) == iswupper(c) \/ iswlower(c)

towupper(c) ==
    IF c >= 97 /\ c <= 122 THEN c - 32
    ELSE IF c >= 1072 /\ c <= 1103 THEN c - 32
    ELSE IF c >= 1104 /\ c <= 1119 THEN c - 80
    ELSE c

----------------------------------------------------------------------------
(* modAlphaCipher *)

\* L"АБВГДЕЁЖЗИЙКЛМНОПРСТУФХЦЧШЩЪЫЬЭЮЯ": А..Е are 1040..1045, Ё is 1025,
\* Ж..Я are 1046..1071
numAlpha ==
    <<1040, 1041, 1042, 1043, 1044, 1045, 1025, 1046, 1047, 1048, 1049,
      1050, 1051, 1052, 1053, 1054, 1055, 1056, 1057, 1058, 1059, 1060,
      1061, 1062, 1063, 1064, 1065, 1066, 1067, 1068, 1069, 1070, 1071>>

\* the constructor's loop: alphaNum[numAlpha[i]] = i (a later i overwrites)
buildAlphaNum ==
    [c \in {numAlpha[i] : i \in 1..Len(numAlpha)} |->
        CHOOSE i \in 0..(Len(numAlpha) - 1) :
            /\ numAlpha[i + 1] = c
            /\ \A j \in 0..(Len(numAlpha) - 1) : numAlpha[j + 1] = c => j <= i]

emptyMap == [c \in {} |-> 0]

toUpper(c) ==
    IF c >= 1072 /\ c <= 1103 THEN 1040 + (c - 1072)
    ELSE IF c = 1105 THEN 1025
    ELSE towupper(c)

Thrown(msg) == [ok |-> FALSE, val |-> <<>>, what |-> msg]
Returned(v) == [ok |-> TRUE, val |-> v, what |-> ""]

\* getValidKey without the iswalpha test
getValidKeyNoAlphaTest(s) ==
    IF s = <<>> THEN Thrown("Empty key")
    ELSE Returned([i \in 1..Len(s) |->
                     IF iswlower(s[i]) THEN toUpper(s[i]) ELSE s[i]])

getValidKey(s) ==
    IF s = <<>> THEN Thrown("Empty key")
    ELSE IF \E i \in 1..Len(s) : ~iswalpha(s[i])
         THEN Thrown("Invalid key: non-alphabetic character")
         ELSE Returned([i \in 1..Len(s) |->
                          IF iswlower(s[i]) THEN toUpper(s[i]) ELSE s[i]])

getValidOpenText(s) ==
    LET letters == SelectSeq(s, iswalpha)
        tmp == [i \in 1..Len(letters) |->
                  IF iswlower(letters[i]) THEN toUpper(letters[i]) ELSE letters[i]]
    IN  IF tmp = <<>> THEN Thrown("Empty text, no letters") ELSE Returned(tmp)

getValidCipherText(s) ==
    IF s = <<>> THEN Thrown("Empty cipher text")
    ELSE IF \E i \in 1..Len(s) : ~iswupper(s[i])
         THEN Thrown("Incorrect data entry")
         ELSE Returned(s)

\* convert with alphaNum[upperC] used without the find test: a symbol that has
\* no slot is inserted into the map with the value 0
convertToNumNoFind(an, s) ==
    [i \in 1..Len(s) |->
        IF toUpper(s[i]) \in DOMAIN an THEN an[toUpper(s[i])] ELSE 0]

\* convert(const std::wstring&): symbols that have no slot in the map are skipped
convertToNum(an, s) ==
    LET up == [i \in 1..Len(s) |-> toUpper(s[i])]
        found == SelectSeq(up, LAMBDA c : c \in DOMAIN an)
    IN  [i \in 1..Len(found) |-> an[found[i]]]

\* convert(const std::vector<int>&): indices out of range are skipped
convertToStr(v) ==
    LET inRange == SelectSeq(v, LAMBDA i : i >= 0 /\ i < Len(numAlpha))
    IN  [i \in 1..Len(inRange) |-> numAlpha[inRange[i] + 1]]

\* the loop of encrypt without the reduction modulo the alphabet size
encryptLoopNoWrap(work, k) ==
    [i \in 1..Len(work) |-> work[i] + k[((i - 1) % Len(k)) + 1]]

\* the loop of encrypt with the key index clamped to the key instead of cycling
encryptLoopNoCycle(work, k) ==
    [i \in 1..Len(work) |->
        (work[i] + k[IF i <= Len(k) THEN i ELSE Len(k)]) % Len(numAlpha)]

\* the loop of decrypt adding the key as encrypt does
decryptLoopAdds(work, k) ==
    [i \in 1..Len(work) |->
        (work[i] + Len(numAlpha) + k[((i - 1) % Len(k)) + 1]) % Len(numAlpha)]

\* the loop of encrypt over work, key k non-empty
encryptLoop(work, k) ==
    [i \in 1..Len(work) |->
        (work[i] + k[((i - 1) % Len(k)) + 1]) % Len(numAlpha)]

\* the loop of decrypt over work, key k non-empty
decryptLoop(work, k) ==
    [i \in 1..Len(work) |->
        (work[i] + Len(numAlpha) - k[((i - 1) % Len(k)) + 1]) % Len(numAlpha)]

----------------------------------------------------------------------------
(* Table *)

\* L"абвгдеёжзийклмнопрстуфхцчшщъыьэюя"
lower ==
    <<1072, 1073, 1074, 1075, 1076, 1077, 1105, 1078, 1079, 1080, 1081,
      1082, 1083, 1084, 1085, 1086, 1087, 1088, 1089, 1090, 1091, 1092,
      1093, 1094, 1095, 1096, 1097, 1098, 1099, 1100, 1101, 1102, 1103>>

\* L"АБВГДЕЁЖЗИЙКЛМНОПРСТУФХЦЧШЩЪЫЬЭЮЯ"
upper ==
    <<1040, 1041, 1042, 1043, 1044, 1045, 1025, 1046, 1047, 1048, 1049,
      1050, 1051, 1052, 1053, 1054, 1055, 1056, 1057, 1058, 1059, 1060,
      1061, 1062, 1063, 1064, 1065, 1066, 1067, 1068, 1069, 1070, 1071>>

\* L' ', the value of a grid cell that holds no symbol
blank == 32

\* std::wstring::npos
npos == -1

\* std::wstring::find(c): the first position of c, counted from 0, or npos
find(str, c) ==
    IF \E i \in 1..Len(str) : str[i] = c
    THEN (CHOOSE i \in 1..Len(str) :
             str[i] = c /\ \A j \in 1..Len(str) : str[j] = c => i <= j) - 1
    ELSE npos

\* getValidKey without the test of the upper limit
Table_getValidKeyNoMax(k) ==
    IF k <= 0 THEN Thrown("Invalid key: cannot be zero")
    ELSE Returned(k)

Table_getValidKey(k) ==
    IF k <= 0 THEN Thrown("Invalid key: cannot be zero")
    ELSE IF k < 0 THEN Thrown("Invalid key: cannot be negative")
    ELSE IF k > 100 THEN Thrown("Invalid key: too large")
    ELSE Returned(k)

RECURSIVE Table_validLoopNoFold(_, _)
\* the loop of getValidOpenText pushing a lowercase letter as it is
Table_validLoopNoFold(s, tmp) ==
    IF s = <<>> THEN tmp
    ELSE LET c == Head(s)
         IN  IF find(upper, c) # npos \/ find(lower, c) # npos
             THEN Table_validLoopNoFold(Tail(s), Append(tmp, c))
             ELSE Table_validLoopNoFold(Tail(s), tmp)

RECURSIVE Table_validLoopKeepsAll(_, _)
\* the loop of getValidOpenText pushing the characters that are no letters too
Table_validLoopKeepsAll(s, tmp) ==
    IF s = <<>> THEN tmp
    ELSE LET c == Head(s)
         IN  IF find(upper, c) = npos /\ find(lower, c) # npos
             THEN Table_validLoopKeepsAll(Tail(s), Append(tmp, upper[find(lower, c) + 1]))
             ELSE Table_validLoopKeepsAll(Tail(s), Append(tmp, c))

RECURSIVE Table_validLoop(_, _)
\* the loop of Table::getValidOpenText: tmp after the symbols of s
Table_validLoop(s, tmp) ==
    IF s = <<>> THEN tmp
    ELSE LET c == Head(s)
         IN  IF find(upper, c) # npos
             THEN Table_validLoop(Tail(s), Append(tmp, c))
             ELSE IF find(lower, c) # npos
                  THEN Table_validLoop(Tail(s), Append(tmp, upper[find(lower, c) + 1]))
                  ELSE Table_validLoop(Tail(s), tmp)

Table_getValidOpenText(s) ==
    LET tmp == Table_validLoop(s, <<>>)
    IN  IF tmp = <<>> THEN Thrown("Empty text: no valid Russian letters")
        ELSE Returned(tmp)

\* getValidCipherText accepting the lowercase letters too
Table_getValidCipherTextAnyCase(s) ==
    IF s = <<>> THEN Thrown("Empty cipher text")
    ELSE IF \E i \in 1..Len(s) : find(upper, s[i]) = npos /\ find(lower, s[i]) = npos
         THEN Thrown("Invalid cipher text")
         ELSE Returned(s)

Table_getValidCipherText(s) ==
    IF s = <<>> THEN Thrown("Empty cipher text")
    ELSE IF \E i \in 1..Len(s) : find(upper, s[i]) = npos
         THEN Thrown("Invalid cipher text")
         ELSE Returned(s)

\* rows = (n + cols - 1) / cols
rowsOf(n, c) == (n + c - 1) \div c

\* vector<vector<wchar_t>> table(rows, vector<wchar_t>(cols, L' '))
newTable(rows, c) == [cell \in (0..(rows - 1)) \X (0..(c - 1)) |-> blank]

\* the cells in the order of: for row in 0..rows-1, for col in 0..cols-1
rowMajor(rows, c) ==
    [i \in 1..(rows * c) |-> <<(i - 1) \div c, (i - 1) % c>>]

\* the columns taken from 0 up to cols-1
colMajorUp(rows, c) ==
    [i \in 1..(rows * c) |-> <<(i - 1) % rows, (i - 1) \div rows>>]

\* the columns taken from cols-1 down to 0, each from its last row up to row 0
colMajorDownBottomUp(rows, c) ==
    [i \in 1..(rows * c) |-> <<rows - 1 - ((i - 1) % rows), c - 1 - ((i - 1) \div rows)>>]

\* the cells in the order of: for col in cols-1 down to 0, for row in 0..rows-1
colMajorDown(rows, c) ==
    [i \in 1..(rows * c) |-> <<(i - 1) % rows, c - 1 - ((i - 1) \div rows)>>]

RECURSIVE fillCells(_, _, _, _)
\* over the cells in order: if (index < n) table[row][col] = validText[index++]
fillCells(st, cells, validText, n) ==
    IF cells = <<>> THEN st
    ELSE IF st.index < n
         THEN fillCells([table |-> [st.table EXCEPT ![Head(cells)] = validText[st.index + 1]],
                         index |-> st.index + 1],
                        Tail(cells), validText, n)
         ELSE fillCells(st, Tail(cells), validText, n)

\* over the cells in order: if (table[row][col] != L' ') result += table[row][col]
readCells(table, cells) ==
    LET all == [i \in 1..Len(cells) |-> table[cells[i]]]
    IN  SelectSeq(all, LAMBDA ch : ch # blank)

\* the grid of Table::encrypt after the fill loop, with the final index
encryptFill(c, validText) ==
    LET n == Len(validText)
        rows == rowsOf(n, c)
    IN  fillCells([table |-> newTable(rows, c), index |-> 0],
                  rowMajor(rows, c), validText, n)

Table_encrypt(c, plain) ==
    LET valid == Table_getValidOpenText(plain)
        n == Len(valid.val)
        rows == rowsOf(n, c)
    IN  IF ~valid.ok THEN Thrown(valid.what)
        ELSE IF n = 0 THEN Returned(<<>>)
        ELSE Returned(readCells(encryptFill(c, valid.val).table, colMajorDown(rows, c)))

\* fullCols without the correction for n % cols == 0
fullColsNoFix(n, c) == n % c

\* fullCols = n % cols; if (fullCols == 0) fullCols = cols
fullColsOf(n, c) == IF n % c = 0 THEN c ELSE n % c

\* rowsInCol with col > fullCols for col >= fullCols
rowsInColOffByOne(n, c, col) ==
    IF col > fullColsOf(n, c) THEN rowsOf(n, c) - 1 ELSE rowsOf(n, c)

\* rowsInCol = rows; if (col >= fullCols) rowsInCol = rows - 1
rowsInCol(n, c, col) ==
    IF col >= fullColsOf(n, c) THEN rowsOf(n, c) - 1 ELSE rowsOf(n, c)

\* the cells the fill loop of Table::decrypt visits, in its order
decryptCells(n, c) ==
    SelectSeq(colMajorDown(rowsOf(n, c), c),
              LAMBDA cell : cell[1] < rowsInCol(n, c, cell[2]))

\* the grid of Table::decrypt after the fill loop, with the final index
decryptFill(c, validText) ==
    LET n == Len(validText)
    IN  fillCells([table |-> newTable(rowsOf(n, c), c), index |-> 0],
                  decryptCells(n, c), validText, n)

Table_decrypt(c, cipher) ==
    LET valid == Table_getValidCipherText(cipher)
        n == Len(valid.val)
        rows == rowsOf(n, c)
    IN  IF ~valid.ok THEN Thrown(valid.what)
        ELSE IF n = 0 THEN Returned(<<>>)
        ELSE Returned(readCells(decryptFill(c, valid.val).table, rowMajor(rows, c)))

----------------------------------------------------------------------------
(* encrypt and decrypt as functions of the instance state and the argument; *)
(* they are defined when the loop does not index an empty key               *)

indexesEmptyKey(k, work) == work # <<>> /\ k = <<>>

encrypt(an, k, open_text) ==
    LET valid == getValidOpenText(open_text)
        work == convertToNum(an, valid.val)
    IN  IF ~valid.ok THEN Thrown(valid.what)
        ELSE Returned(convertToStr(encryptLoop(work, k)))

decrypt(an, k, cipher_text) ==
    LET valid == getValidCipherText(cipher_text)
        work == convertToNum(an, valid.val)
    IN  IF ~valid.ok THEN Thrown(valid.what)
        ELSE Returned(convertToStr(decryptLoop(work, k)))

----------------------------------------------------------------------------
(* Threads that call one engine *)

Threads == {1, 2}

\* a thread that has made no call
idleCall ==
    [st |-> "idle", op |-> "none", arg |-> <<>>, valid |-> <<>>, work |-> <<>>,
     i |-> 0, res |-> "none", out |-> <<>>, what |-> "", inst |-> <<>>]

\* Keys of the shared shift engine: Я, ёЯ, Z; column counts of the shared Table
ConcKeys == {<<1071>>, <<1105, 1071>>, <<90>>}
ConcCols == {1, 2}
\* Arguments of the concurrent calls: strings of А, п and Z up to two characters
ConcArgs == BoundedSeq({1040, 1087, 90}, 2)

\* alphaNum after convert(s): alphaNum[upperC] is evaluated only for the symbols
\* find() has found, so operator[] inserts nothing
mapAfterConvert(an, s) ==
    LET touched == {toUpper(s[i]) : i \in {j \in 1..Len(s) : toUpper(s[j]) \in DOMAIN an}}
    IN  [c \in DOMAIN an \cup touched |-> IF c \in DOMAIN an THEN an[c] ELSE 0]

----------------------------------------------------------------------------
(* The shift engine in use: construct, encrypt, decrypt *)

Init ==
    /\ pc = "start"
    /\ skey = <<>>
    /\ engine = "none"
    /\ alphaNum = emptyMap
    /\ key = <<>>
    /\ cols = 0
    /\ Text = <<>>
    /\ cipherText = <<>>
    /\ decryptedText = <<>>
    /\ encRes = "none"
    /\ decRes = "none"
    /\ err = ""
    /\ ub = FALSE
    /\ calls = [t \in Threads |-> idleCall]

\* modAlphaCipher cipher(k)
Construct(k) ==
    /\ pc = "start"
    /\ skey' = k
    /\ LET valid == getValidKey(k)
       IN  IF valid.ok
           THEN /\ alphaNum' = buildAlphaNum
                /\ key' = convertToNum(buildAlphaNum, valid.val)
                /\ engine' = "live"
                /\ pc' = "ready"
                /\ err' = ""
           ELSE /\ pc' = "failed"
                /\ err' = valid.what
                /\ UNCHANGED <<alphaNum, key, engine>>
    /\ UNCHANGED <<calls, cols, Text, cipherText, decryptedText, encRes, decRes, ub>>

\* cipherText = cipher.encrypt(t)
Encrypt(t) ==
    /\ pc = "ready"
    /\ engine = "live"
    /\ Text' = t
    /\ IF getValidOpenText(t).ok
          /\ indexesEmptyKey(key, convertToNum(alphaNum, getValidOpenText(t).val))
       THEN \* i % key.size() with key.size() == 0, then key[...] of an empty vector
            /\ ub' = TRUE
            /\ err' = ""
            /\ \/ /\ encRes' = "crash"
                  /\ pc' = "crashed"
                  /\ UNCHANGED cipherText
               \/ \E g \in UBGarbage :
                  /\ encRes' = "ok"
                  /\ pc' = "encrypted"
                  /\ cipherText' = encrypt(alphaNum, <<g>>, t).val
       ELSE LET r == encrypt(alphaNum, key, t)
            IN  /\ encRes' = IF r.ok THEN "ok" ELSE "cipher_error"
                /\ err' = r.what
                /\ pc' = IF r.ok THEN "encrypted" ELSE "failed"
                /\ cipherText' = r.val
                /\ UNCHANGED ub
    /\ UNCHANGED <<calls, skey, engine, alphaNum, key, cols, decryptedText, decRes>>

\* the call cipher.decrypt(c): its effect on decryptedText, decRes, err, pc, ub
DecryptCall(c) ==
    IF getValidCipherText(c).ok
       /\ indexesEmptyKey(key, convertToNum(alphaNum, getValidCipherText(c).val))
    THEN /\ ub' = TRUE
         /\ err' = ""
         /\ \/ /\ decRes' = "crash"
               /\ pc' = "crashed"
               /\ UNCHANGED decryptedText
            \/ \E g \in UBGarbage :
               /\ decRes' = "ok"
               /\ pc' = "done"
               /\ decryptedText' = decrypt(alphaNum, <<g>>, c).val
    ELSE LET r == decrypt(alphaNum, key, c)
         IN  /\ decRes' = IF r.ok THEN "ok" ELSE "cipher_error"
             /\ err' = r.what
             /\ pc' = IF r.ok THEN "done" ELSE "failed"
             /\ decryptedText' = r.val
             /\ UNCHANGED ub

\* decryptedText = cipher.decrypt(cipherText), the cipher text being encrypt's result
DecryptLast ==
    /\ pc = "encrypted"
    /\ engine = "live"
    /\ DecryptCall(cipherText)
    /\ UNCHANGED <<calls, skey, engine, alphaNum, key, cols, Text, cipherText, encRes>>

\* cipher.decrypt(c) on a cipher text given from outside
Decrypt(c) ==
    /\ pc = "ready"
    /\ engine = "live"
    /\ cipherText' = c
    /\ DecryptCall(c)
    /\ UNCHANGED <<calls, skey, engine, alphaNum, key, cols, Text, encRes>>

Next ==
    \/ \E k \in KeyStrings : Construct(k)
    \/ \E t \in TextStrings : Encrypt(t)
    \/ DecryptLast
    \/ \E c \in TextStrings : Decrypt(c)

Spec == Init /\ [][Next]_vars

----------------------------------------------------------------------------
(* The transposition engine in use: construct, encrypt, decrypt *)

\* Table cipher(k)
TConstruct(k) ==
    /\ pc = "start"
    /\ skey' = k
    /\ LET valid == Table_getValidKey(k)
       IN  IF valid.ok
           THEN /\ cols' = valid.val
                /\ engine' = "live"
                /\ pc' = "ready"
                /\ err' = ""
           ELSE /\ pc' = "failed"
                /\ err' = valid.what
                /\ UNCHANGED <<cols, engine>>
    /\ UNCHANGED <<calls, alphaNum, key, Text, cipherText, decryptedText, encRes,
                   decRes, ub>>

\* encrypted = cipher.encrypt(t)
TEncrypt(t) ==
    /\ pc = "ready"
    /\ engine = "live"
    /\ Text' = t
    /\ LET r == Table_encrypt(cols, t)
       IN  /\ encRes' = IF r.ok THEN "ok" ELSE "cipher_error"
           /\ err' = r.what
           /\ pc' = IF r.ok THEN "encrypted" ELSE "failed"
           /\ cipherText' = r.val
    /\ UNCHANGED <<calls, skey, engine, alphaNum, key, cols, decryptedText, decRes, ub>>

\* the call cipher.decrypt(c): its effect on decryptedText, decRes, err, pc
TDecryptCall(c) ==
    LET r == Table_decrypt(cols, c)
    IN  /\ decRes' = IF r.ok THEN "ok" ELSE "cipher_error"
        /\ err' = r.what
        /\ pc' = IF r.ok THEN "done" ELSE "failed"
        /\ decryptedText' = r.val

\* decrypted = cipher.decrypt(encrypted)
TDecryptLast ==
    /\ pc = "encrypted"
    /\ engine = "live"
    /\ TDecryptCall(cipherText)
    /\ UNCHANGED <<calls, skey, engine, alphaNum, key, cols, Text, cipherText, encRes, ub>>

\* cipher.decrypt(c) on a cipher text given from outside
TDecrypt(c) ==
    /\ pc = "ready"
    /\ engine = "live"
    /\ cipherText' = c
    /\ TDecryptCall(c)
    /\ UNCHANGED <<calls, skey, engine, alphaNum, key, cols, Text, encRes, ub>>

TableNext ==
    \/ \E k \in TableKeys : TConstruct(k)
    \/ \E t \in TableStrings : TEncrypt(t)
    \/ TDecryptLast
    \/ \E c \in TableStrings : TDecrypt(c)

SpecTable == Init /\ [][TableNext]_vars

----------------------------------------------------------------------------
(* One engine, constructed first, then called by the threads; a call of    *)
(* the shift engine proceeds by the statements of encrypt/decrypt, so the  *)
(* calls of the threads interleave between reads of alphaNum and of key    *)

isTable == cols # 0

\* thread t enters cipher.encrypt(a) or cipher.decrypt(a)
CallBegin(t, o, a) ==
    /\ pc = "ready"
    /\ engine = "live"
    /\ calls[t].st = "idle"
    /\ calls' = [calls EXCEPT ![t] =
                   [idleCall EXCEPT !.st = "validate", !.op = o, !.arg = a,
                                    !.inst = <<key, alphaNum, cols>>]]
    /\ UNCHANGED <<pc, skey, engine, alphaNum, key, cols, Text, cipherText,
                   decryptedText, encRes, decRes, err, ub>>

\* a call ends by throwing cipher_error
throwsIn(cl, msg) ==
    [cl EXCEPT !.st = "done", !.res = "cipher_error", !.what = msg]

\* getValidOpenText(open_text) / getValidCipherText(cipher_text)
ShiftValidate(t) ==
    /\ pc = "ready"
    /\ ~isTable
    /\ calls[t].st = "validate"
    /\ LET cl == calls[t]
           v == IF cl.op = "encrypt" THEN getValidOpenText(cl.arg)
                ELSE getValidCipherText(cl.arg)
       IN  calls' = [calls EXCEPT ![t] =
                       IF v.ok THEN [cl EXCEPT !.st = "convert", !.valid = v.val]
                       ELSE throwsIn(cl, v.what)]
    /\ UNCHANGED <<pc, skey, engine, alphaNum, key, cols, Text, cipherText,
                   decryptedText, encRes, decRes, err, ub>>

\* std::vector<int> work = convert(...)
ShiftConvert(t) ==
    /\ pc = "ready"
    /\ ~isTable
    /\ calls[t].st = "convert"
    /\ LET cl == calls[t]
       IN  calls' = [calls EXCEPT ![t] =
                       [cl EXCEPT !.st = "loop", !.i = 0,
                                  !.work = convertToNum(alphaNum, cl.valid)]]
    /\ alphaNum' = mapAfterConvert(alphaNum, calls[t].valid)
    /\ UNCHANGED <<pc, skey, engine, key, cols, Text, cipherText,
                   decryptedText, encRes, decRes, err, ub>>

\* one iteration of the loop, or its exit
ShiftLoop(t) ==
    /\ pc = "ready"
    /\ ~isTable
    /\ calls[t].st = "loop"
    /\ LET cl == calls[t]
           step(k) == IF cl.op = "encrypt" THEN encryptLoop(cl.work, k)[cl.i + 1]
                      ELSE decryptLoop(cl.work, k)[cl.i + 1]
       IN  IF cl.i >= Len(cl.work)
           THEN /\ calls' = [calls EXCEPT ![t] = [cl EXCEPT !.st = "return"]]
                /\ UNCHANGED <<pc, ub>>
           ELSE IF key = <<>>
           THEN \* i % key.size() with key.size() == 0, then key[...] of an empty vector
                /\ ub' = TRUE
                /\ \/ /\ pc' = "crashed"
                      /\ UNCHANGED calls
                   \/ \E g \in UBGarbage :
                      /\ calls' = [calls EXCEPT ![t] =
                                     [cl EXCEPT !.work[cl.i + 1] = step(<<g>>),
                                                !.i = cl.i + 1]]
                      /\ UNCHANGED pc
           ELSE /\ calls' = [calls EXCEPT ![t] =
                               [cl EXCEPT !.work[cl.i + 1] = step(key),
                                          !.i = cl.i + 1]]
                /\ UNCHANGED <<pc, ub>>
    /\ UNCHANGED <<skey, engine, alphaNum, key, cols, Text, cipherText,
                   decryptedText, encRes, decRes, err>>

\* return convert(work)
ShiftReturn(t) ==
    /\ pc = "ready"
    /\ ~isTable
    /\ calls[t].st = "return"
    /\ LET cl == calls[t]
       IN  calls' = [calls EXCEPT ![t] =
                       [cl EXCEPT !.st = "done", !.res = "ok",
                                  !.out = convertToStr(cl.work)]]
    /\ UNCHANGED <<pc, skey, engine, alphaNum, key, cols, Text, cipherText,
                   decryptedText, encRes, decRes, err, ub>>

\* Table: std::wstring validText = getValidOpenText(plain) / getValidCipherText(cipher)
TableValidate(t) ==
    /\ pc = "ready"
    /\ isTable
    /\ calls[t].st = "validate"
    /\ LET cl == calls[t]
           v == IF cl.op = "encrypt" THEN Table_getValidOpenText(cl.arg)
                ELSE Table_getValidCipherText(cl.arg)
       IN  calls' = [calls EXCEPT ![t] =
                       IF v.ok THEN [cl EXCEPT !.st = "return", !.valid = v.val]
                       ELSE throwsIn(cl, v.what)]
    /\ UNCHANGED <<pc, skey, engine, alphaNum, key, cols, Text, cipherText,
                   decryptedText, encRes, decRes, err, ub>>

\* Table: the grid is local to the call; cols is read, the result returned
TableTransform(t) ==
    /\ pc = "ready"
    /\ isTable
    /\ calls[t].st = "return"
    /\ LET cl == calls[t]
           r == IF cl.op = "encrypt" THEN Table_encrypt(cols, cl.valid)
                ELSE Table_decrypt(cols, cl.valid)
       IN  calls' = [calls EXCEPT ![t] =
                       [cl EXCEPT !.st = "done", !.res = "ok", !.out = r.val]]
    /\ UNCHANGED <<pc, skey, engine, alphaNum, key, cols, Text, cipherText,
                   decryptedText, encRes, decRes, err, ub>>

ConcNext ==
    \/ \E k \in ConcKeys : Construct(k)
    \/ \E k \in ConcCols : TConstruct(k)
    \/ \E t \in Threads, o \in {"encrypt", "decrypt"}, a \in ConcArgs : CallBegin(t, o, a)
    \/ \E t \in Threads : ShiftValidate(t)
    \/ \E t \in Threads : ShiftConvert(t)
    \/ \E t \in Threads : ShiftLoop(t)
    \/ \E t \in Threads : ShiftReturn(t)
    \/ \E t \in Threads : TableValidate(t)
    \/ \E t \in Threads : TableTransform(t)

SpecConc == Init /\ [][ConcNext]_vars

----------------------------------------------------------------------------
(* Vocabulary of the properties *)

\* the uppercase letters of the Russian alphabet: А..Я and Ё
UpperRu == (1040..1071) \cup {1025}

\* case folding of the Russian letters: а..я to А..Я, ё to Ё
FoldRu(c) ==
    IF c >= 1072 /\ c <= 1103 THEN c - 32
    ELSE IF c = 1105 THEN 1025
    ELSE c

\* normalization: the letters of the alphabet only, in order, uppercased
Normalize(t) ==
    SelectSeq([i \in 1..Len(t) |-> FoldRu(t[i])], LAMBDA c : c \in UpperRu)

\* zero-based position of an alphabet symbol in numAlpha
IndexOf(c) == CHOOSE j \in 0..(Len(numAlpha) - 1) : numAlpha[j + 1] = c

IsPrefix(p, q) == Len(p) <= Len(q) /\ SubSeq(q, 1, Len(p)) = p

\* digits, punctuation and whitespace of Basic Latin
NonLetter(c) == c \in (9..13) \cup (32..64) \cup (91..96) \cup (123..126)

InvalidKeyErrors == {"Empty key", "Invalid key: non-alphabetic character"}

Finished == pc \in {"done", "failed", "crashed"}

----------------------------------------------------------------------------
(* C1: shift round trip.  For every key the constructor accepts and every  *)
(* text on which encrypt succeeds, decrypt(encrypt(text)) succeeds and     *)
(* equals the normalization of text.                                       *)
C1_ShiftRoundTrip ==
    (encRes = "ok" /\ Finished) =>
        (decRes = "ok" /\ decryptedText = Normalize(Text))

(* C2: transposition round trip.  For every accepted cols and every text   *)
(* with non-empty normalization, decrypt(encrypt(text)) equals the         *)
(* normalization, also when the length is no multiple of cols and when     *)
(* cols exceeds the length.                                                *)
C2_TableRoundTrip ==
    /\ (pc \in {"encrypted", "done", "failed"} /\ Normalize(Text) # <<>>) =>
           encRes = "ok"
    /\ (encRes = "ok" /\ Finished) =>
           (decRes = "ok" /\ decryptedText = Normalize(Text))

\* a round trip on a ragged grid: 4 letters in 3 columns
C2_Witness ==
    /\ pc = "done" /\ encRes = "ok" /\ cols = 3
    /\ Len(decryptedText) = 4
    /\ Len(Text) = 4
    /\ cipherText # decryptedText

(* C3 as stated: the alphabet has exactly 32 symbols and the i-th output   *)
(* symbol of encrypt is the symbol at index (p_i + key[i mod L]) mod 32.   *)
C3_EncryptFormula32 ==
    (encRes = "ok" /\ key # <<>> /\ cipherText # <<>>) =>
        LET norm == Normalize(Text)
        IN  /\ Len(numAlpha) = 32
            /\ Len(cipherText) = Len(norm)
            /\ \A i \in 1..Len(norm) :
                 cipherText[i] =
                    numAlpha[((IndexOf(norm[i]) + key[((i - 1) % Len(key)) + 1]) % 32) + 1]

(* C3 amended: the alphabet has exactly 33 symbols and the i-th output     *)
(* symbol of encrypt is the symbol at index (p_i + key[i mod L]) mod 33,   *)
(* p_i the index of the i-th symbol of the normalized input.               *)
C3_EncryptFormula ==
    (encRes = "ok" /\ ~ub) =>
        LET norm == Normalize(Text)
        IN  /\ Len(numAlpha) = 33
            /\ \A i, j \in 1..Len(numAlpha) : numAlpha[i] = numAlpha[j] => i = j
            /\ Len(cipherText) = Len(norm)
            /\ \A i \in 1..Len(norm) :
                 cipherText[i] =
                    numAlpha[((IndexOf(norm[i]) + key[((i - 1) % Len(key)) + 1]) % 33) + 1]

\* an encryption of three letters under a two-symbol key in which a sum wraps
C3_Witness ==
    /\ encRes = "ok" /\ ~ub
    /\ Len(key) = 2
    /\ Len(cipherText) = 3
    /\ \E i \in 1..3 :
         IndexOf(Normalize(Text)[i]) + key[((i - 1) % 2) + 1] >= 33

C5_KeyInvariant ==
    engine = "live" =>
        /\ Len(key) >= 1
        /\ \A i \in 1..Len(key) : key[i] >= 0 /\ key[i] < Len(numAlpha)

(* C6: construction fails with an invalid-key error, leaving no engine,    *)
(* when the key is empty or holds a digit, punctuation or whitespace; it   *)
(* succeeds for every non-empty key of alphabet letters in either case.    *)
C6_KeyValidation ==
    pc # "start" =>
        /\ (skey = <<>> \/ \E i \in 1..Len(skey) : NonLetter(skey[i])) =>
               (engine = "none" /\ pc = "failed" /\ err \in InvalidKeyErrors
                /\ key = <<>> /\ encRes = "none" /\ decRes = "none")
        /\ (skey # <<>> /\ \A i \in 1..Len(skey) : FoldRu(skey[i]) \in UpperRu) =>
               (engine = "live" /\ err \notin InvalidKeyErrors
                /\ Len(key) = Len(skey))

\* a key of a letter followed by a digit was refused
C6_Witness ==
    /\ pc = "failed" /\ engine = "none"
    /\ Len(skey) = 2 /\ skey[1] = 1071 /\ skey[2] = 49
    /\ err = "Invalid key: non-alphabetic character"

(* C7: for every valid key, encrypt fails with the empty-text error        *)
(* exactly when the input holds no letter of the alphabet; whenever it     *)
(* returns, the result is non-empty and as long as the number of alphabet  *)
(* letters of the input.                                                   *)
C7_EncryptEmptyText ==
    (encRes \in {"ok", "cipher_error"} /\ key # <<>>) =>
        /\ (encRes = "cipher_error") <=> (Normalize(Text) = <<>>)
        /\ encRes = "ok" =>
              (cipherText # <<>> /\ Len(cipherText) = Len(Normalize(Text)))

(* C8: for every valid key, decrypt fails on empty input, and fails with   *)
(* the invalid-cipher-text error whenever a character of the input is not  *)
(* an uppercase symbol of the alphabet; nothing is dropped or produced.    *)
C8_DecryptStrict ==
    (decRes \in {"ok", "cipher_error"} /\ key # <<>>) =>
        /\ cipherText = <<>> =>
              (decRes = "cipher_error" /\ err = "Empty cipher text")
        /\ (\E i \in 1..Len(cipherText) : cipherText[i] \notin UpperRu) =>
              (decRes = "cipher_error" /\ err = "Incorrect data entry"
               /\ decryptedText = <<>>)

(* C9: for every valid key and text t with non-empty normalization,        *)
(* encrypt(t) = encrypt(normalize(t)); removed characters consume no key   *)
(* position; encrypt of t followed by more text has encrypt(t) as prefix.  *)
C9_EncryptInsensitive ==
    (encRes \in {"ok", "cipher_error"} /\ key # <<>> /\ Normalize(Text) # <<>>) =>
        /\ encRes = "ok"
        /\ cipherText = encrypt(alphaNum, key, Normalize(Text)).val
        /\ \A j \in 1..Len(Text) :
              LET t == SubSeq(Text, 1, j)
              IN  Normalize(t) # <<>> =>
                     /\ encrypt(alphaNum, key, t).ok
                     /\ IsPrefix(encrypt(alphaNum, key, t).val, cipherText)
                     /\ Len(encrypt(alphaNum, key, t).val) = Len(Normalize(t))

\* a lowercase letter, a comma and a letter under a two-symbol key
C9_Witness ==
    /\ encRes = "ok" /\ ~ub /\ Len(key) = 2
    /\ Len(Text) = 3 /\ Text[1] = 1087 /\ Text[2] = 44 /\ Text[3] \in UpperRu
    /\ Len(cipherText) = 2

(* C10: for every valid key of length L and every text of m copies of the  *)
(* first alphabet letter, encrypt returns the m symbols whose i-th is the  *)
(* uppercase key symbol at i mod L, whatever the relation of m and L; a    *)
(* lowercase key gives what its uppercase form gives.                      *)
C10_KeyCycling ==
    (/\ encRes \in {"ok", "cipher_error"}
     /\ \A i \in 1..Len(skey) : FoldRu(skey[i]) \in UpperRu
     /\ Text # <<>>
     /\ \A i \in 1..Len(Text) : Text[i] = 1040) =>
        /\ encRes = "ok"
        /\ Len(cipherText) = Len(Text)
        /\ \A i \in 1..Len(Text) :
              cipherText[i] = FoldRu(skey[((i - 1) % Len(skey)) + 1])

\* the key Яё, partly lowercase and shorter than the text ААА, cycles
C10_Witness ==
    /\ encRes = "ok"
    /\ skey = <<1071, 1105>>
    /\ Text = <<1040, 1040, 1040>>
    /\ cipherText = <<1071, 1025, 1071>>

----------------------------------------------------------------------------
(* Vocabulary of the properties of the transposition engine *)

TableInvalidKeyErrors ==
    {"Invalid key: cannot be zero", "Invalid key: cannot be negative",
     "Invalid key: too large"}

\* the symbols t[r*cl + c] of column c, r = 0, 1, ... while r*cl + c < Len(t)
RouteColumn(t, cl, c) ==
    [r \in 1..(IF c < Len(t) THEN ((Len(t) - 1 - c) \div cl) + 1 ELSE 0) |->
        t[(r - 1) * cl + c + 1]]

RECURSIVE RouteFrom(_, _, _)
\* the columns c, c-1, ..., 0 one after the other
RouteFrom(t, cl, c) ==
    IF c < 0 THEN <<>> ELSE RouteColumn(t, cl, c) \o RouteFrom(t, cl, c - 1)

Reverse(t) == [i \in 1..Len(t) |-> t[Len(t) + 1 - i]]

\* the number of times ch occurs in t
Count(ch, t) == Cardinality({i \in 1..Len(t) : t[i] = ch})

SameSymbols(a, b) ==
    /\ Len(a) = Len(b)
    /\ \A i \in 1..Len(a) : Count(a[i], a) = Count(a[i], b)

AllUpperRu(t) == \A i \in 1..Len(t) : t[i] \in UpperRu

(* C11: Table(cols) is constructed exactly when 1 <= cols <= 100 and then  *)
(* stores cols unchanged; for cols <= 0 or cols > 100 the construction     *)
(* fails with an invalid-key error and leaves no engine.                   *)
C11_TableKeyBounds ==
    pc # "start" =>
        /\ (skey >= 1 /\ skey <= 100) <=> (engine = "live")
        /\ engine = "live" => cols = skey
        /\ (skey <= 0 \/ skey > 100) =>
              (pc = "failed" /\ err \in TableInvalidKeyErrors /\ cols = 0
               /\ encRes = "none" /\ decRes = "none")

\* the first column count above the limit was refused
C11_Witness ==
    pc = "failed" /\ skey = 101 /\ engine = "none" /\ err = "Invalid key: too large"

(* C12: for normalized text t of length n >= 1, encrypt returns, for       *)
(* column c from cols-1 down to 0, the symbols t[r*cols + c], r = 0, 1,    *)
(* ... while r*cols + c < n.                                               *)
C12_EncryptRoute ==
    encRes = "ok" =>
        cipherText = RouteFrom(Normalize(Text), cols, cols - 1)

\* four letters in three columns, read out in another order than written
C12_Witness ==
    /\ encRes = "ok" /\ pc = "encrypted" /\ cols = 3
    /\ Len(cipherText) = 4
    /\ cipherText # Normalize(Text)

(* C13: with cols = 1 encrypt returns the normalization of its text and    *)
(* decrypt returns every valid uppercase cipher text unchanged.            *)
C13_OneColumnIdentity ==
    (engine = "live" /\ cols = 1) =>
        /\ (encRes # "none" /\ Normalize(Text) # <<>>) =>
              (encRes = "ok" /\ cipherText = Normalize(Text))
        /\ (decRes # "none" /\ cipherText # <<>> /\ AllUpperRu(cipherText)) =>
              (decRes = "ok" /\ decryptedText = cipherText)

\* a given cipher text of three symbols, not all alike, decrypted with one column
C13_Witness ==
    /\ cols = 1 /\ encRes = "none" /\ decRes = "ok"
    /\ Len(decryptedText) = 3
    /\ decryptedText[1] # decryptedText[3]

(* C14: with cols >= n the grid has one row, the columns of index >= n     *)
(* hold nothing, encrypt returns the reversal of the normalized text and   *)
(* decrypt of that cipher text returns the normalized text.                *)
C14_SingleRowReversal ==
    (encRes = "ok" /\ cols >= Len(Normalize(Text))) =>
        LET t == Normalize(Text)
            grid == encryptFill(cols, Table_getValidOpenText(Text).val).table
        IN  /\ rowsOf(Len(t), cols) = 1
            /\ DOMAIN grid = {0} \X (0..(cols - 1))
            /\ \A c \in 0..(cols - 1) :
                  grid[<<0, c>>] = IF c < Len(t) THEN t[c + 1] ELSE blank
            /\ cipherText = Reverse(t)
            /\ Finished => (decRes = "ok" /\ decryptedText = t)

\* three letters in a hundred columns, encrypted and decrypted
C14_Witness ==
    /\ cols = 100 /\ encRes = "ok" /\ pc = "done"
    /\ Len(cipherText) = 3
    /\ cipherText # decryptedText

(* C15: encrypt discards what is no Russian letter and folds lowercase to  *)
(* uppercase, so encrypt(t) = encrypt(normalize(t)); it fails with the     *)
(* empty-text error exactly when no letter survives and returns a          *)
(* non-empty result otherwise.                                             *)
C15_EncryptNormalizes ==
    encRes # "none" =>
        /\ Table_getValidOpenText(Text).val = Normalize(Text)
        /\ (encRes = "cipher_error") <=> (Normalize(Text) = <<>>)
        /\ encRes = "cipher_error" =>
              (err = "Empty text: no valid Russian letters" /\ cipherText = <<>>)
        /\ encRes = "ok" =>
              /\ cipherText # <<>>
              /\ cipherText = Table_encrypt(cols, Normalize(Text)).val

\* a lowercase letter, a space and two letters in two columns
C15_Witness ==
    /\ encRes = "ok" /\ cols = 2
    /\ Len(Text) = 4 /\ Text[1] = 1103 /\ Text[2] = 32
    /\ Len(cipherText) = 3

(* C16: decrypt fails with the empty-text error on empty input (tested     *)
(* first) and with the invalid-cipher-text error when a character is no    *)
(* uppercase letter of the alphabet; a failure produces no output.         *)
C16_TableDecryptStrict ==
    decRes # "none" =>
        /\ cipherText = <<>> =>
              (decRes = "cipher_error" /\ err = "Empty cipher text")
        /\ (cipherText # <<>> /\ ~AllUpperRu(cipherText)) =>
              (decRes = "cipher_error" /\ err = "Invalid cipher text")
        /\ decRes = "cipher_error" => (decryptedText = <<>> /\ pc = "failed")
        /\ (cipherText # <<>> /\ AllUpperRu(cipherText)) => decRes = "ok"

\* a cipher text whose second character is a lowercase letter was refused
C16_Witness ==
    /\ decRes = "cipher_error" /\ err = "Invalid cipher text"
    /\ Len(cipherText) = 2 /\ cipherText[1] = 1040 /\ cipherText[2] = 1103

(* C18: decrypt of a valid cipher text of length n, rows = ceil(n/cols),   *)
(* fullCols = n mod cols if nonzero else cols, consumes the cipher text    *)
(* from column cols-1 down to column 0, column c getting rows cells if     *)
(* c < fullCols and rows-1 otherwise; the depths sum to n, every symbol is *)
(* placed exactly once, the index < n guard never cuts a column short, and *)
(* the ragged columns are the rightmost cols - (n mod cols) when           *)
(* n mod cols # 0 and none otherwise.                                      *)
C18_DecryptGridFill ==
    decRes = "ok" =>
        LET n == Len(cipherText)
            rows == (n + cols - 1) \div cols
            full == IF n % cols # 0 THEN n % cols ELSE cols
            cells == decryptCells(n, cols)
            st == decryptFill(cols, cipherText)
            depth(c) == Cardinality({i \in 1..Len(cells) : cells[i][2] = c})
            ragged == {c \in 0..(cols - 1) : depth(c) = rows - 1}
        IN  /\ rowsOf(n, cols) = rows
            /\ \A c \in 0..(cols - 1) :
                  depth(c) = IF c < full THEN rows ELSE rows - 1
            /\ Len(cells) = n
            /\ st.index = n
            /\ \A i, j \in 1..Len(cells) :
                  i < j => \/ cells[i][2] > cells[j][2]
                           \/ cells[i][2] = cells[j][2] /\ cells[i][1] < cells[j][1]
            /\ \A i \in 1..n : st.table[cells[i]] = cipherText[i]
            /\ \A cell \in DOMAIN st.table :
                  (\A i \in 1..n : cells[i] # cell) => st.table[cell] = blank
            /\ ragged = IF n % cols # 0 THEN (n % cols)..(cols - 1) ELSE {}
            /\ Cardinality(ragged) = IF n % cols # 0 THEN cols - (n % cols) ELSE 0

\* a given cipher text of four symbols in three columns: two ragged columns
C18_Witness ==
    /\ encRes = "none" /\ decRes = "ok" /\ cols = 3
    /\ Len(cipherText) = 4
    /\ decryptedText # cipherText

(* C19: for every non-empty string c of uppercase alphabet letters,        *)
(* encrypt(decrypt(c)) = c: decrypt is a right inverse of encrypt too.     *)
C19_DecryptRightInverse ==
    (decRes # "none" /\ cipherText # <<>> /\ AllUpperRu(cipherText)) =>
        /\ decRes = "ok"
        /\ Len(decryptedText) = Len(cipherText)
        /\ Table_encrypt(cols, decryptedText).ok
        /\ Table_encrypt(cols, decryptedText).val = cipherText

\* a given cipher text of three symbols in two columns, changed by decrypt
C19_Witness ==
    /\ encRes = "none" /\ decRes = "ok" /\ cols = 2
    /\ Len(cipherText) = 3
    /\ decryptedText # cipherText

(* C20: the result of encrypt, and of decrypt, is as long as the validated *)
(* text and a permutation of it; the blank that marks an unfilled cell is  *)
(* never a symbol of validated text, so no filled cell is dropped and none *)
(* is emitted twice.                                                       *)
C20_OnlyRearranges ==
    /\ encRes = "ok" =>
          LET v == Table_getValidOpenText(Text).val
          IN  /\ \A i \in 1..Len(v) : v[i] # blank
              /\ SameSymbols(v, cipherText)
    /\ decRes = "ok" =>
          LET v == Table_getValidCipherText(cipherText).val
          IN  /\ \A i \in 1..Len(v) : v[i] # blank
              /\ SameSymbols(v, decryptedText)

\* a text with a space and a lowercase letter, encrypted in two columns and decrypted
C20_Witness ==
    /\ encRes = "ok" /\ decRes = "ok" /\ cols = 2
    /\ Len(Text) = 4 /\ Text[2] = 32 /\ Text[4] = 1103
    /\ Len(decryptedText) = 3
    /\ cipherText # decryptedText

----------------------------------------------------------------------------
(* Vocabulary of the property of concurrent calls *)

\* what the call returns or throws when it runs alone on the instance it met
Alone(cl) ==
    LET r == IF cl.inst[3] # 0
             THEN IF cl.op = "encrypt" THEN Table_encrypt(cl.inst[3], cl.arg)
                  ELSE Table_decrypt(cl.inst[3], cl.arg)
             ELSE IF cl.op = "encrypt" THEN encrypt(cl.inst[2], cl.inst[1], cl.arg)
                  ELSE decrypt(cl.inst[2], cl.inst[1], cl.arg)
    IN  [res |-> IF r.ok THEN "ok" ELSE "cipher_error", out |-> r.val, what |-> r.what]

Outcome(cl) == [res |-> cl.res, out |-> cl.out, what |-> cl.what]

\* the call indexes the empty key of its instance
CallIndexesEmptyKey(cl) ==
    /\ cl.inst[3] = 0
    /\ cl.inst[1] = <<>>
    /\ \E i \in 1..Len(cl.arg) : FoldRu(cl.arg[i]) \in UpperRu
    /\ IF cl.op = "encrypt" THEN TRUE ELSE getValidCipherText(cl.arg).ok

(* C17: once an engine is constructed no encrypt or decrypt call writes    *)
(* its state (numeric key, symbol table, cols); in every interleaving of   *)
(* calls on one instance each call returns the result or error it returns  *)
(* alone, and a repeated call returns the same result.                     *)
C17_ConcurrentCalls ==
    /\ \A t \in Threads :
          calls[t].st # "idle" => calls[t].inst = <<key, alphaNum, cols>>
    /\ \A t \in Threads :
          (calls[t].st = "done" /\ ~CallIndexesEmptyKey(calls[t])) =>
              Outcome(calls[t]) = Alone(calls[t])
    /\ \A t, u \in Threads :
          (/\ calls[t].st = "done" /\ calls[u].st = "done"
           /\ calls[t].op = calls[u].op /\ calls[t].arg = calls[u].arg) =>
              Outcome(calls[t]) = Outcome(calls[u])

(* C17 for the calls that index no empty key (every call of Table, and     *)
(* every call of a shift engine whose numeric key is not empty): the same  *)
(* three properties.                                                       *)
C17_DefinedCalls ==
    (isTable \/ key # <<>>) => C17_ConcurrentCalls

\* thread 1 has returned from encrypt(L"Ап") on the engine with key ёЯ while
\* thread 2 is inside the loop of the same call
C17_DefinedWitness ==
    /\ ~isTable /\ key = <<6, 32>>
    /\ calls[1].st = "done" /\ calls[2].st = "loop" /\ calls[2].i = 1
    /\ calls[1].op = "encrypt" /\ calls[2].op = "encrypt"
    /\ calls[1].arg = <<1040, 1087>> /\ calls[2].arg = <<1040, 1087>>

====
